---- MODULE Spec2Model ----
(***************************************************************************)
(* Model of signin_logs_dashboard.py: a Streamlit script that loads an     *)
(* uploaded JSON export of Azure AD sign-in logs, normalises it into a     *)
(* table (parse_logs) and renders six dashboard sections one after the     *)
(* other inside a single try/except.                                       *)
(*                                                                         *)
(* JSON values are tagged records.  A JSON object is Obj(m) where m is a   *)
(* function over a fixed key universe whose entries are Absent for the     *)
(* keys the object does not carry.  Numbers are integers (47.6 is written  *)
(* 476, -122.3 is written -1223: tenths of a degree).                      *)
(***************************************************************************)
EXTENDS Integers, Sequences, FiniteSets, TLC

VARIABLES uploaded_file, pc, df, selection, computed,
          all_ca_failures, grouped, top_apps, top_cities, reason_counts,
          mfa_usage, ca_fail_count, selected_user, filtered_df, kpis, screen

vars == <<uploaded_file, pc, df, selection, computed,
          all_ca_failures, grouped, top_apps, top_cities, reason_counts,
          mfa_usage, ca_fail_count, selected_user, filtered_df, kpis, screen>>

-----------------------------------------------------------------------------
(* Bounds *)

\* Longest record sequence drawn from SampleRecords for an upload.
MaxLen == 2

-----------------------------------------------------------------------------
(* JSON values *)

Absent == [t |-> "absent"]
Null == [t |-> "null"]
Str(s) == [t |-> "str", v |-> s]
Num(n) == [t |-> "num", v |-> n]
Arr(s) == [t |-> "arr", v |-> s]
Obj(m) == [t |-> "obj", v |-> m]

\* isinstance(x, dict) / isinstance(x, str)
IsDict(x) == x.t = "obj"
IsStr(x) == x.t = "str"
\* pandas notnull(): None and NaN are null
NotNull(x) == x.t # "null"
\* dict and list are not hashable in Python
Unhashable(x) == x.t \in {"obj", "arr"}
\* k in x, for a dict x
HasKey(x, k) == k \in DOMAIN x.v /\ x.v[k] # Absent
\* x.get(k), for a dict x
Get(x, k) == IF HasKey(x, k) THEN x.v[k] ELSE Null

Min(a, b) == IF a < b THEN a ELSE b

\* str.lower() on the conditional-access strings of the sample data
lower(s) ==
    CASE s = "Failure" -> "failure"
      [] s = "FAILURE" -> "failure"
      [] s = "failure" -> "failure"
      [] s = "Success" -> "success"
      [] s = "success" -> "success"
      [] s = "notApplied" -> "notapplied"

-----------------------------------------------------------------------------
(* Records *)

\* required_cols with its last entry forgotten
required_cols_short ==
    << "conditionalAccessStatus", "userPrincipalName", "location",
       "createdDateTime", "userDisplayName", "appDisplayName", "riskState",
       "riskEventType_v2", "resourceDisplayName",
       "authenticationRequirement", "status", "mfaDetail" >>

required_cols ==
    << "conditionalAccessStatus", "userPrincipalName", "location",
       "createdDateTime", "userDisplayName", "appDisplayName", "riskState",
       "riskEventType_v2", "resourceDisplayName",
       "authenticationRequirement", "status", "mfaDetail", "deviceDetail" >>

RequiredSet == {required_cols[i] : i \in DOMAIN required_cols}

\* Keys a sample record may carry: the required ones and one that is not.
RecordKeys == RequiredSet \cup {"id"}

\* Keys of the nested objects (location, geoCoordinates, status, mfaDetail).
NestedKeys == {"geoCoordinates", "city", "latitude", "longitude",
               "failureReason", "authMethod"}

NoKeys == [k \in NestedKeys |-> Absent]
Blank == [k \in RecordKeys |-> Absent]

Geo(lat, lon) ==
    Obj([NoKeys EXCEPT !["latitude"] = lat, !["longitude"] = lon])
Location(geo, city) ==
    Obj([NoKeys EXCEPT !["geoCoordinates"] = geo, !["city"] = city])
Status(reason) == Obj([NoKeys EXCEPT !["failureReason"] = reason])
Mfa(method) == Obj([NoKeys EXCEPT !["authMethod"] = method])

Rec(ca, user, loc, app, st, mfa) ==
    Obj([Blank EXCEPT !["conditionalAccessStatus"] = ca,
                      !["userPrincipalName"] = user,
                      !["location"] = loc,
                      !["appDisplayName"] = app,
                      !["status"] = st,
                      !["mfaDetail"] = mfa])

-----------------------------------------------------------------------------
(* pandas helpers *)

Range(s) == {s[i] : i \in DOMAIN s}

\* The keys carried by at least one record of a list of dicts.
CarriedKeys(items) ==
    UNION {{k \in DOMAIN items[i].v : items[i].v[k] # Absent} :
           i \in DOMAIN items}

NoFrame == [ok |-> FALSE, cols |-> {}, rows |-> <<>>]
EmptyFrame == [ok |-> TRUE, cols |-> {}, rows |-> <<>>]

\* pd.DataFrame(data) for the shapes json.load can hand to it:
\*   None                  -> an empty frame
\*   a string or a number  -> ValueError
\*   a list of dicts       -> one row per dict, one column per key carried by
\*                            some dict, NaN where a dict lacks the key
\*   a dict (column map)   -> no key: an empty frame; only scalars:
\*                            ValueError; a list under "foo": one row per item
DataFrame(data) ==
    CASE data.t = "null" -> EmptyFrame
      [] data.t \in {"str", "num"} -> NoFrame
      [] data.t = "arr" ->
            LET keys == CarriedKeys(data.v)
            IN [ok |-> TRUE, cols |-> keys,
                rows |-> [i \in DOMAIN data.v |->
                            [c \in keys |->
                               IF data.v[i].v[c] = Absent THEN Null
                               ELSE data.v[i].v[c]]]]
      [] data.t = "obj" ->
            IF ~HasKey(data, "foo") THEN EmptyFrame
            ELSE IF data.v["foo"].t # "arr" THEN NoFrame
            ELSE [ok |-> TRUE, cols |-> {"foo"},
                  rows |-> [i \in DOMAIN data.v["foo"].v |->
                              [c \in {"foo"} |-> data.v["foo"].v[i]]]]

\* df[col] = values, one value per row (adds the column or replaces it)
WithColumn(frame, col, values) ==
    [frame EXCEPT !.cols = @ \cup {col},
                  !.rows = [i \in DOMAIN @ |->
                              [c \in frame.cols \cup {col} |->
                                 IF c = col THEN values[i]
                                 ELSE frame.rows[i][c]]]]

\* Series.apply(f) is written [i \in DOMAIN rows |-> f(rows[i])] below.

\* df[col] as a sequence
Column(frame, col) == [i \in DOMAIN frame.rows |-> frame.rows[i][col]]

\* keys of a sequence in first-encounter order, without repetition
Uniq(s) ==
    LET first == {i \in DOMAIN s : \A j \in 1..(i - 1) : s[j] # s[i]}
    IN [p \in 1..Cardinality(first) |->
          s[CHOOSE i \in first : Cardinality({j \in first : j < i}) = p - 1]]

Occurrences(s, k) == Cardinality({i \in DOMAIN s : s[i] = k})

\* sort entries by descending count; equal counts keep their order
SortByCountDesc(entries) ==
    LET n == Len(entries)
        rank(i) == Cardinality({j \in 1..n :
                      \/ entries[j].count > entries[i].count
                      \/ entries[j].count = entries[i].count /\ j < i}) + 1
    IN [p \in 1..n |-> entries[CHOOSE i \in 1..n : rank(i) = p]]

\* value_counts(sort=False): entries in first-encounter order
value_counts_unsorted(s) ==
    LET vals == SelectSeq(s, NotNull)
        keys == Uniq(vals)
    IN [i \in DOMAIN keys |->
          [key |-> keys[i], count |-> Occurrences(vals, keys[i])]]

\* Series.value_counts(): nulls dropped, one entry per distinct value,
\* descending count
value_counts(s) ==
    LET vals == SelectSeq(s, NotNull)
        keys == Uniq(vals)
    IN SortByCountDesc([i \in DOMAIN keys |->
                          [key |-> keys[i], count |-> Occurrences(vals, keys[i])]])

\* Series.head(n)
head(s, n) == SubSeq(s, 1, Min(n, Len(s)))

\* value_counts raises TypeError on an unhashable value
Raises(s) == \E i \in DOMAIN s : Unhashable(s[i])

-----------------------------------------------------------------------------
(* parse_logs *)

extract_lat(row) ==
    IF HasKey(row, "geoCoordinates")
       /\ IsDict(row.v["geoCoordinates"])
       /\ HasKey(row.v["geoCoordinates"], "latitude")
    THEN row.v["geoCoordinates"].v["latitude"]
    ELSE Null

extract_lon(row) ==
    IF HasKey(row, "geoCoordinates")
       /\ IsDict(row.v["geoCoordinates"])
       /\ HasKey(row.v["geoCoordinates"], "longitude")
    THEN row.v["geoCoordinates"].v["longitude"]
    ELSE Null

\* the status copied without .lower()
ConditionalAccess_raw(x) == IF IsStr(x) THEN x ELSE Null

ConditionalAccess(x) == IF IsStr(x) THEN Str(lower(x.v)) ELSE Null

\* for col in required_cols: if col not in df.columns: df[col] = None
AddMissing(frame) ==
    LET missing == {required_cols[i] : i \in DOMAIN required_cols} \ frame.cols
    IN [frame EXCEPT !.cols = @ \cup missing,
                     !.rows = [i \in DOMAIN @ |->
                                 [c \in frame.cols \cup missing |->
                                    IF c \in missing THEN Null
                                    ELSE frame.rows[i][c]]]]

parse_logs(logs) ==
    LET df0 == DataFrame(logs)
    IN IF ~df0.ok THEN NoFrame
       ELSE LET df1 == AddMissing(df0)
                rows == df1.rows
                df2 == WithColumn(df1, "Conditional Access",
                          [i \in DOMAIN rows |->
                             ConditionalAccess(rows[i]["conditionalAccessStatus"])])
                df3 == WithColumn(df2, "User",
                          [i \in DOMAIN rows |-> rows[i]["userPrincipalName"]])
                df4 == WithColumn(df3, "lat",
                          [i \in DOMAIN rows |->
                             IF IsDict(rows[i]["location"])
                             THEN extract_lat(rows[i]["location"]) ELSE Null])
            IN WithColumn(df4, "lon",
                          [i \in DOMAIN rows |->
                             IF IsDict(rows[i]["location"])
                             THEN extract_lon(rows[i]["location"]) ELSE Null])

-----------------------------------------------------------------------------
(* Sample uploads *)

SeqsUpTo(S, n) == UNION {[1..k -> S] : k \in 0..n}

Seattle == Location(Geo(Num(476), Num(-1223)), Str("Seattle"))
Paris == Location(Geo(Num(488), Num(23)), Str("Paris"))

SampleRecords ==
    { Rec(Str("Failure"), Str("A"), Seattle, Str("Mail"),
          Status(Str("Blocked")), Mfa(Str("Phone"))),
      Rec(Str("failure"), Str("B"), Paris, Str("Teams"),
          Status(Str("Other.")), Mfa(Str("App"))),
      Rec(Str("FAILURE"), Str("A"), Location(Geo(Absent, Absent), Absent),
          Str("Teams"), Status(Str("Expired")), Absent),
      Rec(Str("success"), Str("C"), Null, Str("Mail"), Status(Null),
          Mfa(Str("Phone"))),
      Rec(Num(5), Str("B"), Str("string"), Absent, Str("x"), Null),
      Rec(Str("failure"), Null, Seattle, Null, Status(Str("Blocked")),
          Mfa(Null)),
      Rec(Str("notApplied"), Absent, Location(Null, Str("Paris")),
          Str("Teams"), Absent, Absent),
      Obj(Blank),
      Obj([Blank EXCEPT !["id"] = Num(1)]),
      Rec(Str("failure"), Str("A"),
          Location(Geo(Str("north"), Num(-1223)), Absent), Str("Mail"),
          Absent, Absent),
      Rec(Str("success"), Str("C"), Absent, Obj(NoKeys), Absent, Absent),
      Rec(Str("failure"), Str("B"), Absent, Str("Mail"),
          Status(Arr(<<Str("x")>>)), Absent),
      Rec(Str("Success"), Str("C"), Absent, Str("Teams"), Absent,
          Mfa(Arr(<<>>))),
      Rec(Absent, Str("A"), Location(Absent, Arr(<<>>)), Absent, Absent,
          Absent) }

\* Every shape of the location field, one single-record upload each.
CoordVals == {Absent, Null, Num(476), Num(-1223), Str("north")}
GeoVals == {Absent, Null, Str("abc"), Num(1), Arr(<<>>)}
             \cup {Geo(a, b) : a \in CoordVals, b \in CoordVals}
LocationVals == {Null, Str("string"), Num(7), Arr(<<>>)}
                  \cup {Location(g, c) : g \in GeoVals,
                                         c \in {Absent, Str("Seattle")}}
LocationUploads ==
    {<<Rec(Str("failure"), Absent, l, Absent, Absent, Absent)>> :
        l \in LocationVals}

\* Seven apps used 4, 5, ..., 10 times, the least used first.
AppNames == <<"App1", "App2", "App3", "App4", "App5", "App6", "App7">>
AppRec(a) == Rec(Absent, Absent, Absent, Str(a), Absent, Absent)
\* the last record of app k is record 4 + 5 + ... + (3 + k)
LastOf(k) == 3 * k + (k * (k + 1)) \div 2
SevenApps ==
    [i \in 1..LastOf(7) |->
       AppRec(AppNames[CHOOSE k \in 1..7 : LastOf(k - 1) < i /\ i <= LastOf(k)])]

\* failureReason values "Other.", "Other.", "Blocked" x 3, null
ReasonRec(r) == Rec(Absent, Absent, Absent, Absent, Status(r), Absent)
SixReasons ==
    << ReasonRec(Str("Other.")), ReasonRec(Str("Other.")),
       ReasonRec(Str("Blocked")), ReasonRec(Str("Blocked")),
       ReasonRec(Str("Blocked")), ReasonRec(Null) >>

\* Twelve distinct failure reasons; the last two occur twice.
ReasonNames == <<"R1", "R2", "R3", "R4", "R5", "R6", "R7", "R8", "R9",
                 "R10", "R11", "R12">>
TwelveReasons ==
    [i \in 1..14 |->
       ReasonRec(Str(ReasonNames[IF i <= 10 THEN i ELSE 11 + (i - 11) \div 2]))]

\* Three failures for A, one for B, only successes for C.
UserRec(ca, u) == Rec(Str(ca), Str(u), Absent, Absent, Absent, Absent)
ThreeUsers ==
    << UserRec("success", "C"), UserRec("failure", "B"),
       UserRec("Failure", "A"), UserRec("failure", "A"),
       UserRec("Success", "C"), UserRec("FAILURE", "A") >>

Scenarios == {SevenApps, SixReasons, TwelveReasons, ThreeUsers}

RecordSequences ==
    SeqsUpTo(SampleRecords, MaxLen) \cup LocationUploads \cup Scenarios

\* A top-level JSON object: the keys "value" and "foo", each carried or not.
TopObj(value, foo) == Obj([value |-> value, foo |-> foo])

\* A file whose text is not JSON.
BadJson == [t |-> "invalid"]
\* uploaded_file is None
NoFile == [t |-> "nofile"]

Envelopes ==
    {TopObj(Arr(s), f) : s \in SeqsUpTo(SampleRecords, 1) \cup Scenarios,
                         f \in {Absent, Str("bar")}}

OtherShapes ==
    {BadJson, Null, Str("text"), Num(1)}
      \cup {TopObj(Absent, f) :
              f \in {Absent, Null, Str("bar"), Num(1)}
                      \cup {Arr(s) : s \in SeqsUpTo(SampleRecords, 1)}}
      \cup {TopObj(x, f) : x \in {Null, Str("text"), Num(1)},
                           f \in {Absent, Str("bar")}}

Documents == {Arr(s) : s \in RecordSequences} \cup Envelopes \cup OtherShapes

-----------------------------------------------------------------------------
(* The upload handler *)

Aggregates == {"failure_location", "top_apps", "top_cities",
               "failure_reasons", "mfa_methods", "per_user_failures"}

columns_to_show ==
    {"createdDateTime", "userDisplayName", "appDisplayName", "riskState",
     "riskEventType_v2", "resourceDisplayName", "authenticationRequirement",
     "status", "location"}

NoKpis == [total_logins |-> 0, total_fails |-> 0, unique_users |-> 0,
           mfa_total |-> 0]

\* One element put on the page by a Streamlit call.
Elem(section, kind, of, size) ==
    [section |-> section, kind |-> kind, of |-> of, size |-> size]

\* df[df["Conditional Access"] == "failure"]
IsFailure(row) == row["Conditional Access"] = Str("failure")

\* json.load(uploaded_file) followed by the choice of logs (lines 76-77)
Logs(raw_data) ==
    IF IsDict(raw_data) /\ HasKey(raw_data, "value")
    THEN raw_data.v["value"] ELSE raw_data

\* Streamlit runs the script from the top: nothing of the last run is kept.
StartRun ==
    /\ pc' = "load"
    /\ df' = NoFrame
    /\ computed' = {}
    /\ all_ca_failures' = <<>>
    /\ grouped' = {}
    /\ top_apps' = <<>>
    /\ top_cities' = <<>>
    /\ reason_counts' = <<>>
    /\ mfa_usage' = <<>>
    /\ ca_fail_count' = <<>>
    /\ selected_user' = Null
    /\ filtered_df' = <<>>
    /\ kpis' = NoKpis
    /\ screen' = <<>>

\* except Exception as e: st.error(...)
Error == Elem("error", "error", "exception", 0)

Init ==
    /\ uploaded_file = NoFile
    /\ pc = "idle"
    /\ df = NoFrame
    /\ selection = Null
    /\ computed = {}
    /\ all_ca_failures = <<>>
    /\ grouped = {}
    /\ top_apps = <<>>
    /\ top_cities = <<>>
    /\ reason_counts = <<>>
    /\ mfa_usage = <<>>
    /\ ca_fail_count = <<>>
    /\ selected_user = Null
    /\ filtered_df = <<>>
    /\ kpis = NoKpis
    /\ screen = <<>>

\* The user puts a file in the empty uploader; the script reruns.
Upload(doc) ==
    /\ pc = "idle"
    /\ uploaded_file' = doc
    /\ selection' = Null
    /\ StartRun

\* The user removes the file after a run; the script reruns, uploaded_file is
\* None and nothing is drawn below the uploader.  (Dropping a new file on a
\* finished run leads to the state Upload leads to from here.)
RemoveFile ==
    /\ pc \in {"done", "error"}
    /\ uploaded_file' = NoFile
    /\ selection' = Null
    /\ df' = NoFrame
    /\ computed' = {}
    /\ all_ca_failures' = <<>>
    /\ grouped' = {}
    /\ top_apps' = <<>>
    /\ top_cities' = <<>>
    /\ reason_counts' = <<>>
    /\ mfa_usage' = <<>>
    /\ ca_fail_count' = <<>>
    /\ selected_user' = Null
    /\ filtered_df' = <<>>
    /\ kpis' = NoKpis
    /\ screen' = <<>>
    /\ pc' = "idle"

\* lines 76-78
Load ==
    /\ pc = "load"
    /\ LET parsed == IF uploaded_file = BadJson THEN NoFrame
                     ELSE parse_logs(Logs(uploaded_file))
       IN IF parsed.ok
          THEN /\ df' = parsed
               /\ pc' = "map"
               /\ screen' = screen
          ELSE /\ df' = df
               /\ pc' = "error"
               /\ screen' = Append(screen, Error)
    /\ UNCHANGED <<uploaded_file, selection, computed, all_ca_failures,
                   grouped, top_apps, top_cities, reason_counts, mfa_usage,
                   ca_fail_count, selected_user, filtered_df, kpis>>

\* show_failure_map: df.groupby(["lat", "lon"]).size()
show_failure_map(points) ==
    {[lat |-> p.lat, lon |-> p.lon, count |-> Occurrences(points, p)] :
        p \in Range(points)}

\* grouped["lat"].mean() raises TypeError unless every coordinate is a number
MapRaises(points) ==
    \E i \in DOMAIN points : points[i].lat.t # "num" \/ points[i].lon.t # "num"

\* lines 80-85
FailureMap ==
    /\ pc = "map"
    /\ LET Located(row) == /\ IsFailure(row)
                           /\ NotNull(row["lat"])
                           /\ NotNull(row["lon"])
           picked == SelectSeq(df.rows, Located)
           points == [i \in DOMAIN picked |->
                        [lat |-> picked[i]["lat"], lon |-> picked[i]["lon"]]]
       IN /\ all_ca_failures' = points
          /\ IF points = <<>>
             THEN /\ grouped' = {}
                  /\ computed' = computed \cup {"failure_location"}
                  /\ screen' = Append(screen,
                        Elem("map", "info", "failure_location", 0))
                  /\ pc' = "summary"
             ELSE IF MapRaises(points)
             THEN /\ grouped' = show_failure_map(points)
                  /\ computed' = computed \cup {"failure_location"}
                  /\ screen' = Append(screen, Error)
                  /\ pc' = "error"
             ELSE /\ grouped' = show_failure_map(points)
                  /\ computed' = computed \cup {"failure_location"}
                  /\ screen' = Append(screen,
                        Elem("map", "pydeck_chart", "failure_location",
                             Cardinality(show_failure_map(points))))
                  /\ pc' = "summary"
    /\ UNCHANGED <<uploaded_file, df, selection, top_apps, top_cities,
                   reason_counts, mfa_usage, ca_fail_count, selected_user,
                   filtered_df, kpis>>

City(x) == IF IsDict(x) THEN Get(x, "city") ELSE Null

\* lines 87-103
Summary ==
    /\ pc = "summary"
    /\ LET apps == Column(df, "appDisplayName")
           cities == [i \in DOMAIN df.rows |-> City(df.rows[i]["location"])]
           users == SelectSeq(Column(df, "User"), NotNull)
       IN /\ kpis' = [kpis EXCEPT
                        !.total_logins = Len(df.rows),
                        !.total_fails = Len(SelectSeq(df.rows, IsFailure)),
                        !.unique_users = Cardinality(Range(users))]
          /\ IF Raises(apps)
             THEN /\ UNCHANGED <<top_apps, top_cities, computed>>
                  /\ screen' = Append(screen, Error)
                  /\ pc' = "error"
             ELSE IF Raises(cities)
             THEN /\ top_apps' = head(value_counts(apps), 5)
                  /\ UNCHANGED top_cities
                  /\ computed' = computed \cup {"top_apps"}
                  /\ screen' = Append(screen, Error)
                  /\ pc' = "error"
             ELSE /\ top_apps' = head(value_counts(apps), 5)
                  /\ top_cities' = head(value_counts(cities), 5)
                  /\ computed' = computed \cup {"top_apps", "top_cities"}
                  /\ screen' = screen \o
                       << Elem("summary", "metric", "total_logins",
                               kpis'.total_logins),
                          Elem("summary", "metric", "total_fails",
                               kpis'.total_fails),
                          Elem("summary", "metric", "unique_users",
                               kpis'.unique_users),
                          Elem("summary", "plotly_chart", "top_apps",
                               Len(top_apps')),
                          Elem("summary", "plotly_chart", "top_cities",
                               Len(top_cities')) >>
                  /\ pc' = "reasons"
    /\ UNCHANGED <<uploaded_file, df, selection, all_ca_failures, grouped,
                   reason_counts, mfa_usage, ca_fail_count, selected_user,
                   filtered_df>>

FailureReason(x) == IF IsDict(x) THEN Get(x, "failureReason") ELSE Null

\* the filter on "Other." left out
NotOther_all(x) == TRUE

NotOther(x) == x # Str("Other.")

\* lines 105-112 ("status" is always a column after parse_logs)
Reasons ==
    /\ pc = "reasons"
    /\ LET reasons == [i \in DOMAIN df.rows |->
                         FailureReason(df.rows[i]["status"])]
           kept == SelectSeq(reasons, NotOther)
       IN IF "status" \notin df.cols
          THEN /\ UNCHANGED <<reason_counts, computed, screen>>
               /\ pc' = "mfa"
          ELSE IF Raises(kept)
          THEN /\ UNCHANGED <<reason_counts, computed>>
               /\ screen' = Append(screen, Error)
               /\ pc' = "error"
          ELSE /\ reason_counts' = head(value_counts(kept), 10)
               /\ computed' = computed \cup {"failure_reasons"}
               /\ screen' = Append(screen,
                     IF reason_counts' # <<>>
                     THEN Elem("reasons", "plotly_chart", "failure_reasons",
                               Len(reason_counts'))
                     ELSE Elem("reasons", "info", "failure_reasons", 0))
               /\ pc' = "mfa"
    /\ UNCHANGED <<uploaded_file, df, selection, all_ca_failures, grouped,
                   top_apps, top_cities, mfa_usage, ca_fail_count,
                   selected_user, filtered_df, kpis>>

AuthMethod(row) ==
    IF IsDict(row["mfaDetail"]) THEN Get(row["mfaDetail"], "authMethod")
    ELSE Null

\* lines 114-123 ("mfaDetail" is always a column after parse_logs)
MfaAnalysis ==
    /\ pc = "mfa"
    /\ IF "mfaDetail" \notin df.cols
       THEN /\ UNCHANGED <<df, mfa_usage, kpis, computed, screen>>
            /\ pc' = "table"
       ELSE /\ df' = WithColumn(df, "mfaMethod",
                              [i \in DOMAIN df.rows |-> AuthMethod(df.rows[i])])
            /\ LET methods == Column(df', "mfaMethod")
               IN IF Raises(methods)
                  THEN /\ UNCHANGED <<mfa_usage, kpis, computed>>
                       /\ screen' = Append(screen, Error)
                       /\ pc' = "error"
                  ELSE /\ mfa_usage' = head(value_counts(methods), 10)
                       /\ kpis' = [kpis EXCEPT !.mfa_total =
                                     Len(SelectSeq(methods, NotNull))]
                       /\ computed' = computed \cup {"mfa_methods"}
                       /\ screen' = screen \o
                            << Elem("mfa", "metric", "mfa_total",
                                    kpis'.mfa_total),
                               IF mfa_usage' # <<>>
                               THEN Elem("mfa", "plotly_chart", "mfa_methods",
                                         Len(mfa_usage'))
                               ELSE Elem("mfa", "info", "mfa_methods", 0) >>
                       /\ pc' = "table"
    /\ UNCHANGED <<uploaded_file, selection, all_ca_failures, grouped,
                   top_apps, top_cities, reason_counts, ca_fail_count,
                   selected_user, filtered_df>>

\* lines 125-126
FullTable ==
    /\ pc = "table"
    /\ screen' = Append(screen,
                        Elem("table", "dataframe", "df", Len(df.rows)))
    /\ pc' = "users"
    /\ UNCHANGED <<uploaded_file, df, selection, computed, all_ca_failures,
                   grouped, top_apps, top_cities, reason_counts, mfa_usage,
                   ca_fail_count, selected_user, filtered_df, kpis>>

\* The sample user names in the order Python sorts them.
UserNames == <<"A", "B", "C">>

\* groupby("User") listing the users without counting their rows
GroupByUser_ones(rows) ==
    LET users == [i \in DOMAIN rows |-> rows[i]["User"]]
        IsKey(n) == Str(n) \in Range(users)
        keys == SelectSeq(UserNames, IsKey)
    IN [i \in DOMAIN keys |-> [key |-> Str(keys[i]), count |-> 1]]

\* ca_failures.groupby("User").size(): null users dropped, keys sorted
GroupByUser(rows) ==
    LET users == [i \in DOMAIN rows |-> rows[i]["User"]]
        IsKey(n) == Str(n) \in Range(users)
        keys == SelectSeq(UserNames, IsKey)
    IN [i \in DOMAIN keys |->
          [key |-> Str(keys[i]), count |-> Occurrences(users, Str(keys[i]))]]

\* st.selectbox: the option the user picked, the first option by default
selectbox(options, picked) ==
    IF picked \in Range(options) THEN picked
    ELSE IF options # <<>> THEN options[1] ELSE Null

Project(row) == [c \in columns_to_show |-> row[c]]

\* lines 128-143
Users ==
    /\ pc = "users"
    /\ LET ca_failures == SelectSeq(df.rows, IsFailure)
       IN IF ca_failures # <<>>
          THEN /\ ca_fail_count' = SortByCountDesc(GroupByUser(ca_failures))
               /\ selected_user' =
                    selectbox([i \in DOMAIN ca_fail_count' |->
                                 ca_fail_count'[i].key], selection)
               /\ LET OfUser(row) == row["User"] = selected_user'
                      rows == SelectSeq(df.rows, OfUser)
                  IN filtered_df' = [i \in DOMAIN rows |-> Project(rows[i])]
               /\ screen' = screen \o
                    << Elem("users", "selectbox", "per_user_failures",
                            Len(ca_fail_count')),
                       Elem("users", "table", "per_user_failures",
                            Len(ca_fail_count')),
                       Elem("users", "dataframe", "filtered_df",
                            Len(filtered_df')) >>
          ELSE /\ UNCHANGED <<ca_fail_count, selected_user, filtered_df>>
               /\ screen' = Append(screen,
                     Elem("users", "info", "per_user_failures", 0))
    /\ computed' = computed \cup {"per_user_failures"}
    /\ pc' = "done"
    /\ UNCHANGED <<uploaded_file, df, selection, all_ca_failures, grouped,
                   top_apps, top_cities, reason_counts, mfa_usage, kpis>>

\* The user picks another user in the selectbox; the script reruns.
SelectUser(u) ==
    /\ pc = "done"
    /\ \E i \in DOMAIN ca_fail_count : ca_fail_count[i].key = u
    /\ u # selected_user
    /\ selection' = u
    /\ uploaded_file' = uploaded_file
    /\ StartRun

Next ==
    \/ \E doc \in Documents : Upload(doc)
    \/ RemoveFile
    \/ Load
    \/ FailureMap
    \/ Summary
    \/ Reasons
    \/ MfaAnalysis
    \/ FullTable
    \/ Users
    \/ \E u \in {Str(UserNames[i]) : i \in DOMAIN UserNames} : SelectUser(u)

Spec == Init /\ [][Next]_vars

-----------------------------------------------------------------------------
(* Properties *)

\* The two accepted top-level shapes: an array, or an object whose "value"
\* key holds an array.
AcceptedShape(doc) ==
    \/ doc.t = "arr"
    \/ doc.t = "obj" /\ HasKey(doc, "value") /\ doc.v["value"].t = "arr"

\* The record sequence of the current upload (empty when there is none).
InputRecords ==
    IF AcceptedShape(uploaded_file) THEN Logs(uploaded_file).v ELSE <<>>

\* A run that got past parse_logs.
Normalized == pc \in {"map", "summary", "reasons", "mfa", "table", "users",
                      "done"} \/ (pc = "error" /\ df.ok)

ClaimedColumns ==
    {"conditionalAccessStatus", "userPrincipalName", "location",
     "createdDateTime", "userDisplayName", "appDisplayName", "riskState",
     "riskEventType_v2", "resourceDisplayName", "authenticationRequirement",
     "status", "mfaDetail", "deviceDetail"}

DerivedColumns == {"Conditional Access", "User", "lat", "lon"}

NullWhereNotCarried ==
    \A c \in ClaimedColumns \ CarriedKeys(InputRecords) :
        \A i \in DOMAIN df.rows : df.rows[i][c] = Null

\* C1 as stated: the table returned by parse_logs has exactly the 13 required
\* columns, null where no record carried them, and one row per input record.
C1_ExactlyRequiredColumns ==
    (pc = "map" /\ AcceptedShape(uploaded_file)) =>
        /\ df.cols = ClaimedColumns
        /\ NullWhereNotCarried
        /\ Len(df.rows) = Len(InputRecords)

\* C1 amended: the table returned by parse_logs has every one of the 13
\* required columns, together with the four derived columns and every other
\* key some input record carried, and no further column; a required column no
\* record carried is null in every row; there is one row per input record.
C1_RequiredColumnsPresent ==
    (pc = "map" /\ AcceptedShape(uploaded_file)) =>
        /\ ClaimedColumns \subseteq df.cols
        /\ df.cols = ClaimedColumns \cup DerivedColumns
                       \cup CarriedKeys(InputRecords)
        /\ NullWhereNotCarried
        /\ Len(df.rows) = Len(InputRecords)

\* Two records carrying none of the required fields were normalised.
C1_Witness ==
    /\ pc = "map"
    /\ uploaded_file.t = "arr"
    /\ Len(InputRecords) = 2
    /\ CarriedKeys(InputRecords) \cap ClaimedColumns = {}
    /\ Len(df.rows) = 2

\* C2: an upload whose top-level value is neither an array nor an object with
\* a "value" array ends in the error display and is never normalised into a
\* dashboard.
C2_MalformedEndsInError ==
    (uploaded_file # NoFile /\ ~AcceptedShape(uploaded_file)
       /\ pc \notin {"idle", "load"}) =>
        /\ pc = "error"
        /\ ~df.ok
        /\ screen = <<Error>>

\* C3: a run that ends in the error display has rendered no dashboard
\* section: the error message is the only element on the page.
C3_ErrorMeansNoSection ==
    (pc = "error" /\ uploaded_file # NoFile) => \A i \in DOMAIN screen : screen[i].section = "error"

\* The coordinate of a location value according to section 4.2 of the spec:
\* the number stored under the key, null in every other case.
ClaimedCoordinate(loc, key) ==
    IF /\ IsDict(loc)
       /\ HasKey(loc, "geoCoordinates")
       /\ IsDict(loc.v["geoCoordinates"])
       /\ HasKey(loc.v["geoCoordinates"], key)
       /\ loc.v["geoCoordinates"].v[key].t = "num"
    THEN loc.v["geoCoordinates"].v[key]
    ELSE Null

\* C4: lat and lon of every row are the numbers stored at
\* location.geoCoordinates.latitude / .longitude, and null in every other
\* case, a stored value that is not a number included.
C4_CoordinatesNumericOrNull ==
    (Normalized /\ AcceptedShape(uploaded_file)) =>
        \A i \in DOMAIN df.rows :
            LET loc == IF HasKey(InputRecords[i], "location")
                       THEN InputRecords[i].v["location"] ELSE Null
            IN /\ df.rows[i]["lat"] = ClaimedCoordinate(loc, "latitude")
               /\ df.rows[i]["lon"] = ClaimedCoordinate(loc, "longitude")

\* The raw conditionalAccessStatus of input record i (null when missing).
RawStatus(i) ==
    IF i \in DOMAIN InputRecords
       /\ HasKey(InputRecords[i], "conditionalAccessStatus")
    THEN InputRecords[i].v["conditionalAccessStatus"]
    ELSE Null

\* The raw strings that lower-case to "failure"
FailureSpellings == {"failure", "Failure", "FAILURE"}

RawFailures ==
    {i \in DOMAIN df.rows :
        IsStr(RawStatus(i)) /\ RawStatus(i).v \in FailureSpellings}

\* C5: "Conditional Access" is the lower-cased copy of the raw
\* conditionalAccessStatus when that is a string and null otherwise, and
\* the failure filters (the CA-failures KPI, the per-user section and, among
\* the rows with both coordinates, the failure map) select exactly the
\* records whose raw status is a string that lower-cases to "failure".
C5_ConditionalAccessLowered ==
    Normalized =>
        /\ \A i \in DOMAIN df.rows :
              /\ IsStr(RawStatus(i)) =>
                    df.rows[i]["Conditional Access"] = Str(lower(RawStatus(i).v))
              /\ ~IsStr(RawStatus(i)) =>
                    df.rows[i]["Conditional Access"] = Null
              /\ IsFailure(df.rows[i]) <=> i \in RawFailures
        /\ "failure_location" \in computed =>
              Len(all_ca_failures) =
                 Cardinality({i \in RawFailures :
                                 /\ NotNull(df.rows[i]["lat"])
                                 /\ NotNull(df.rows[i]["lon"])})
        /\ pc \in {"reasons", "mfa", "table", "users", "done"} =>
              kpis.total_fails = Cardinality(RawFailures)
        /\ pc = "done" =>
              (screen[Len(screen)].kind = "info" <=> RawFailures = {})

\* A run counted an upper-case "FAILURE" as a failure and a status that is
\* not a string as none.
C5_Witness ==
    /\ pc = "done"
    /\ Len(df.rows) = 2
    /\ RawStatus(1) = Str("FAILURE")
    /\ RawStatus(2) = Num(5)
    /\ df.rows[1]["Conditional Access"] = Str("failure")
    /\ df.rows[2]["Conditional Access"] = Null
    /\ kpis.total_fails = 1

\* An aggregate produced by value_counts().head(n) from a column: at most n
\* entries, one per distinct non-null value, each with the number of cells
\* holding the value, in descending order of count, and no value left out
\* has a strictly greater count than a value kept.
TopCounts(agg, column, n) ==
    LET values == {x \in Range(column) : NotNull(x)}
        kept == {agg[i].key : i \in DOMAIN agg}
    IN /\ Len(agg) = Min(n, Cardinality(values))
       /\ kept \subseteq values
       /\ Cardinality(kept) = Len(agg)
       /\ \A i \in DOMAIN agg : agg[i].count = Occurrences(column, agg[i].key)
       /\ \A i, j \in DOMAIN agg : i < j => agg[i].count >= agg[j].count
       /\ \A x \in values \ kept :
             \A i \in DOMAIN agg : Occurrences(column, x) <= agg[i].count

Counts(agg) == [i \in DOMAIN agg |-> agg[i].count]

\* C6: the top-apps aggregate has min(5, distinct non-null app names)
\* entries in descending order of count, each with the number of records of
\* that app, and no app left out has a greater count than one included; for
\* seven apps used 10, 9, 8, 7, 6, 5 and 4 times the counts are 10, 9, 8, 7, 6.
C6_TopApps ==
    "top_apps" \in computed =>
        /\ TopCounts(top_apps, Column(df, "appDisplayName"), 5)
        /\ InputRecords = SevenApps => Counts(top_apps) = <<10, 9, 8, 7, 6>>

\* The seven-apps upload was summarised: five entries, the app used ten times
\* (the last in the file) first.
C6_Witness ==
    /\ uploaded_file = Arr(SevenApps)
    /\ "top_apps" \in computed
    /\ Len(top_apps) = 5
    /\ top_apps[1] = [key |-> Str("App7"), count |-> 10]

\* The failureReason of every row, read from the raw status cell.
RowReasons ==
    [i \in DOMAIN df.rows |->
       IF IsDict(df.rows[i]["status"])
          /\ HasKey(df.rows[i]["status"], "failureReason")
       THEN df.rows[i]["status"].v["failureReason"] ELSE Null]

\* C7: the failure-reason aggregate has no "Other." key and no null key; it
\* holds the other failureReason values of mapping-shaped status fields with
\* the number of records carrying each, in descending order of count, cut to
\* the ten most frequent; for "Other.", "Other.", "Blocked" x 3, null it is
\* exactly {Blocked: 3}.
C7_FailureReasons ==
    "failure_reasons" \in computed =>
        /\ \A i \in DOMAIN reason_counts :
              /\ reason_counts[i].key # Str("Other.")
              /\ reason_counts[i].key # Null
        /\ TopCounts(reason_counts,
                     [i \in DOMAIN RowReasons |->
                        IF RowReasons[i] = Str("Other.") THEN Null
                        ELSE RowReasons[i]], 10)
        /\ InputRecords = SixReasons =>
              reason_counts = <<[key |-> Str("Blocked"), count |-> 3]>>

\* The six-reasons upload gave {Blocked: 3}.
C7_Witness ==
    /\ "failure_reasons" \in computed
    /\ uploaded_file = Arr(SixReasons)
    /\ reason_counts = <<[key |-> Str("Blocked"), count |-> 3]>>

\* An upload with twelve distinct reasons was cut to the ten most frequent.
C7_WitnessTruncated ==
    /\ "failure_reasons" \in computed
    /\ InputRecords = TwelveReasons
    /\ Len(reason_counts) = 10

EmptyAggregate(name) ==
    CASE name = "failure_location" -> grouped = {}
      [] name = "top_apps" -> top_apps = <<>>
      [] name = "top_cities" -> top_cities = <<>>
      [] name = "failure_reasons" -> reason_counts = <<>>
      [] name = "mfa_methods" -> mfa_usage = <<>>
      [] name = "per_user_failures" -> ca_fail_count = <<>>

\* C9: in a run that normalised its upload, an aggregate that came out empty
\* is shown as a "no data" indicator, and no chart, table or selection control
\* is drawn from it.
C9_EmptyAggregateShowsNoData ==
    (Normalized /\ AcceptedShape(uploaded_file)) =>
        \A name \in computed :
            EmptyAggregate(name) =>
                /\ \E i \in DOMAIN screen :
                      screen[i].of = name /\ screen[i].kind = "info"
                /\ \A i \in DOMAIN screen :
                      screen[i].of = name => screen[i].kind = "info"

\* C10: once anything of the dashboard is on the page, all six aggregates
\* have been computed, and the table the sections draw is the table
\* parse_logs returned, the one every aggregate read.
C10_AggregatesBeforeRendering ==
    AcceptedShape(uploaded_file) =>
        /\ (\E i \in DOMAIN screen : screen[i].section # "error") =>
               computed = Aggregates
        /\ pc \in {"users", "done"} => df = parse_logs(Logs(uploaded_file))

====
